---- MODULE Spec2Model ----
(***************************************************************************)
(* Model of the chess network layer of wilmerfh-gui (src/src/tcp.rs): the  *)
(* wire codec (MoveMessage / QuitMessage <-> 128-byte frame) and the       *)
(* non-blocking TcpConnection read / write built on it.                    *)
(*                                                                         *)
(* A Rust String is modelled as the sequence of its UTF-8 bytes.  A byte   *)
(* is a one-character string for ASCII ("A", "0", ":") and a token for a   *)
(* non-ASCII byte ("xC3", "xA9", ...).  len() is the length of the         *)
(* sequence, slicing is by byte offset with the char-boundary check, and   *)
(* chars() groups a lead byte with its continuation bytes.                 *)
(***************************************************************************)
EXTENDS Integers, Sequences, FiniteSets, TLC

(***************************************************************************)
(* Result<T, E>, Option<T> and a panic (unwinding out of the function).    *)
(***************************************************************************)
Ok(v) == [kind |-> "Ok", val |-> v]
Err(e) == [kind |-> "Err", err |-> e]
Panic(why) == [kind |-> "Panic", why |-> why]
Some(v) == [some |-> TRUE, val |-> v]
None == [some |-> FALSE]

Repeat(c, n) == [i \in 1..n |-> c]

(***************************************************************************)
(* UTF-8 bytes.                                                            *)
(***************************************************************************)
\* 0x80..0xBF: continuation bytes (0xA9 of U+00E9; 0xBF, 0xBD of U+FFFD)
IsCont(b) == b \in {"xA9", "xBF", "xBD"}
\* 0xC3: lead byte of a 2-byte sequence (U+00E9 is C3 A9)
IsLead2(b) == b = "xC3"
\* 0xEF: lead byte of a 3-byte sequence (U+FFFD is EF BF BD)
IsLead3(b) == b = "xEF"
\* 0xFF never occurs in UTF-8
IsAscii(b) == ~IsCont(b) /\ ~IsLead2(b) /\ ~IsLead3(b) /\ b # "xFF"
REPLACEMENT_CHARACTER == <<"xEF", "xBF", "xBD">>

\* the concatenation of pieces[lo..hi]
RECURSIVE Concat(_, _, _)
Concat(pieces, lo, hi) ==
    IF lo > hi THEN <<>>
    ELSE IF lo = hi THEN pieces[lo]
    ELSE LET mid == (lo + hi) \div 2
         IN  Concat(pieces, lo, mid) \o Concat(pieces, mid + 1, hi)

\* what from_utf8_lossy writes for byte i (counted from 1).  Lead and
\* continuation bytes are disjoint, so the place of a byte in its sequence
\* shows from its neighbours: a complete sequence is kept, a maximal invalid
\* sequence (a lone byte, or a 3-byte lead with one continuation) becomes one
\* U+FFFD.
lossy_piece(bytes, i) ==
    LET n == Len(bytes)
        b == bytes[i]
        cont(k) == k >= 1 /\ k <= n /\ IsCont(bytes[k])
        lead2(k) == k >= 1 /\ k <= n /\ IsLead2(bytes[k])
        lead3(k) == k >= 1 /\ k <= n /\ IsLead3(bytes[k])
    IN  IF IsAscii(b) THEN <<b>>
        ELSE IF IsLead2(b) THEN IF cont(i + 1) THEN <<b>> ELSE REPLACEMENT_CHARACTER
        ELSE IF IsLead3(b)
             THEN IF cont(i + 1) /\ cont(i + 2) THEN <<b>> ELSE REPLACEMENT_CHARACTER
        ELSE IF IsCont(b)
             THEN IF lead2(i - 1) THEN <<b>>
                  ELSE IF lead3(i - 1) THEN IF cont(i + 1) THEN <<b>> ELSE <<>>
                  ELSE IF lead3(i - 2) /\ cont(i - 1) THEN <<b>>
                  ELSE REPLACEMENT_CHARACTER
        ELSE REPLACEMENT_CHARACTER

\* String::from_utf8_lossy(&buffer).to_string(): every maximal invalid
\* sequence becomes U+FFFD, valid sequences are kept.
from_utf8_lossy(bytes) ==
    Concat([i \in 1..Len(bytes) |-> lossy_piece(bytes, i)], 1, Len(bytes))

\* str::is_char_boundary, index counted from 0
is_char_boundary(s, i) ==
    \/ i = 0
    \/ i = Len(s)
    \/ i < Len(s) /\ ~IsCont(s[i + 1])

\* &s[a..b]: panics unless a <= b <= len and both are char boundaries
Slice(s, a, b) ==
    IF a <= b /\ b <= Len(s) /\ is_char_boundary(s, a) /\ is_char_boundary(s, b)
    THEN Ok(SubSeq(s, a + 1, b))
    ELSE Panic("byte index is not a char boundary or out of range")

\* s.chars(): a char is named by its first byte
Chars(s) == SelectSeq(s, LAMBDA b : ~IsCont(b))

\* s.chars().nth(n)
chars_nth(s, n) == IF n < Len(Chars(s)) THEN Some(Chars(s)[n + 1]) ELSE None

\* s.split(sep).collect(): the text between consecutive separators, always
\* at least one part
Split(s, sep) ==
    LET n == Len(s)
        at == SelectSeq([i \in 1..n |-> i], LAMBDA i : s[i] = sep)
        cut == <<0>> \o at \o <<n + 1>>
    IN  [k \in 1..(Len(at) + 1) |-> SubSeq(s, cut[k] + 1, cut[k + 1] - 1)]

Digits == <<"0", "1", "2", "3", "4", "5", "6", "7", "8", "9">>

\* char::to_digit(10)
to_digit(c) ==
    IF \E d \in 1..10 : Digits[d] = c
    THEN Some((CHOOSE d \in 1..10 : Digits[d] = c) - 1)
    ELSE None

\* integer Display (to_string, format!("{}"))
RECURSIVE DecString(_)
DecString(n) ==
    IF n < 0 THEN <<"-">> \o DecString(-n)
    ELSE IF n < 10 THEN <<Digits[n + 1]>>
    ELSE DecString(n \div 10) \o <<Digits[(n % 10) + 1]>>

(***************************************************************************)
(* hermanha_chess types as tcp.rs uses them.                               *)
(***************************************************************************)
PieceType == {"Pawn", "Knight", "Bishop", "Rook", "Queen", "King"}
Color == {"White", "Black"}
Checkmate(c) == [tag |-> "Checkmate", color |-> c]
Stalemate == [tag |-> "Stalemate"]
GameResult == {Checkmate("White"), Checkmate("Black"), Stalemate}
Position_new(row, col) == [row |-> row, col |-> col]
Piece(c, t) == [color |-> c, piece_type |-> t]
Squares == (0..7) \X (0..7)

(***************************************************************************)
(* Wire codec: tokens.                                                     *)
(***************************************************************************)
Files == <<"A", "B", "C", "D", "E", "F", "G", "H">>

pos_to_string(pos) ==
    IF pos.col \in 0..7
    THEN Ok(<<Files[pos.col + 1]>> \o DecString(pos.row + 1))
    ELSE Panic("Invalid column")

pos_from_string(pos_str) ==
    LET file == chars_nth(pos_str, 0)
        rank == chars_nth(pos_str, 1)
    IN  IF ~file.some THEN Err("Invalid position string")
        ELSE IF ~rank.some THEN Err("Invalid position string")
        ELSE IF ~to_digit(rank.val).some THEN Err("Invalid rank")
        ELSE IF \A k \in 1..8 : Files[k] # file.val THEN Err("Invalid file")
        ELSE Ok(Position_new(to_digit(rank.val).val - 1,
                             (CHOOSE k \in 1..8 : Files[k] = file.val) - 1))

piece_type_to_char(piece_type) ==
    CASE piece_type = "Pawn" -> "P"
      [] piece_type = "Knight" -> "N"
      [] piece_type = "Bishop" -> "B"
      [] piece_type = "Rook" -> "R"
      [] piece_type = "Queen" -> "Q"
      [] piece_type = "King" -> "K"

char_to_piece_type(c) ==
    CASE c = "P" -> Ok("Pawn")
      [] c = "N" -> Ok("Knight")
      [] c = "B" -> Ok("Bishop")
      [] c = "R" -> Ok("Rook")
      [] c = "Q" -> Ok("Queen")
      [] c = "K" -> Ok("King")
      [] OTHER -> Err("Invalid piece type")

\* Result::ok(): Ok(v) -> Some(v), Err(_) -> None
ResultOk(r) == IF r.kind = "Ok" THEN Some(r.val) ELSE None

move_to_string(from, to, promotion_piece) ==
    LET from_str == pos_to_string(from)
        to_str == pos_to_string(to)
        promotion_str == IF promotion_piece.some
                         THEN <<piece_type_to_char(promotion_piece.val)>>
                         ELSE <<"0">>
    IN  IF from_str.kind = "Panic" THEN from_str
        ELSE IF to_str.kind = "Panic" THEN to_str
        ELSE Ok(from_str.val \o to_str.val \o promotion_str)

move_from_string(move_str) ==
    IF Len(move_str) # 5 THEN Err("Invalid move string")
    ELSE LET from_str == Slice(move_str, 0, 2)
             from == pos_from_string(from_str.val)
             to_str == Slice(move_str, 2, 4)
             to == pos_from_string(to_str.val)
             promotion_char == chars_nth(move_str, 4)
             promotion_piece == IF promotion_char.val # "0"
                                THEN ResultOk(char_to_piece_type(promotion_char.val))
                                ELSE None
         IN  IF from_str.kind = "Panic" THEN from_str
             ELSE IF from.kind = "Err" THEN from
             ELSE IF to_str.kind = "Panic" THEN to_str
             ELSE IF to.kind = "Err" THEN to
             ELSE IF ~promotion_char.some
                  THEN Panic("called Option::unwrap() on a None value")
             ELSE Ok([from |-> from.val, to |-> to.val,
                      promotion_piece |-> promotion_piece])

game_result_to_string(result) ==
    CASE result = Some(Checkmate("White")) -> <<"1", "-", "0">>
      [] result = Some(Checkmate("Black")) -> <<"0", "-", "1">>
      [] result = Some(Stalemate) -> <<"1", "-", "1">>
      [] result = None -> <<"0", "-", "0">>

\* game_result_from_string with the two checkmate tokens exchanged
game_result_from_string_swapped(s) ==
    CASE s = <<"1", "-", "0">> -> Ok(Some(Checkmate("Black")))
      [] s = <<"0", "-", "1">> -> Ok(Some(Checkmate("White")))
      [] s = <<"1", "-", "1">> -> Ok(Some(Stalemate))
      [] s = <<"0", "-", "0">> -> Ok(None)
      [] OTHER -> Err("Invalid game result")

game_result_from_string(s) ==
    CASE s = <<"1", "-", "0">> -> Ok(Some(Checkmate("White")))
      [] s = <<"0", "-", "1">> -> Ok(Some(Checkmate("Black")))
      [] s = <<"1", "-", "1">> -> Ok(Some(Stalemate))
      [] s = <<"0", "-", "0">> -> Ok(None)
      [] OTHER -> Err("Invalid game result")

(***************************************************************************)
(* Wire codec: board snapshot.  A board maps each square <<row, col>> to   *)
(* Board::get's answer: Some(Piece) or None.                               *)
(***************************************************************************)
UpperLetters == <<"P", "N", "B", "R", "Q", "K">>
LowerLetters == <<"p", "n", "b", "r", "q", "k">>

to_ascii_uppercase(c) ==
    IF \E k \in 1..6 : LowerLetters[k] = c
    THEN UpperLetters[CHOOSE k \in 1..6 : LowerLetters[k] = c]
    ELSE c

to_ascii_lowercase(c) ==
    IF \E k \in 1..6 : UpperLetters[k] = c
    THEN LowerLetters[CHOOSE k \in 1..6 : UpperLetters[k] = c]
    ELSE c

\* board_to_fen's inner loop without the flush of the empty run that ends a rank
RECURSIVE fen_cols_no_trailing_run(_, _, _, _)
fen_cols_no_trailing_run(board, row, col, empty_count) ==
    LET flush == IF empty_count # 0 THEN DecString(empty_count) ELSE <<>>
    IN  IF col = 8 THEN <<>>
        ELSE LET square == board[<<7 - row, col>>]
             IN  IF ~square.some
                 THEN fen_cols_no_trailing_run(board, row, col + 1, empty_count + 1)
                 ELSE LET piece == square.val
                          piece_type_char == piece_type_to_char(piece.piece_type)
                          piece_char == IF piece.color = "White"
                                        THEN to_ascii_uppercase(piece_type_char)
                                        ELSE to_ascii_lowercase(piece_type_char)
                      IN  flush \o <<piece_char>>
                          \o fen_cols_no_trailing_run(board, row, col + 1, 0)

\* the inner loop of board_to_fen from column col on, with the empty run so far
RECURSIVE fen_cols(_, _, _, _)
fen_cols(board, row, col, empty_count) ==
    LET flush == IF empty_count # 0 THEN DecString(empty_count) ELSE <<>>
    IN  IF col = 8 THEN flush
        ELSE LET square == board[<<7 - row, col>>]
             IN  IF ~square.some
                 THEN fen_cols(board, row, col + 1, empty_count + 1)
                 ELSE LET piece == square.val
                          piece_type_char == piece_type_to_char(piece.piece_type)
                          piece_char == IF piece.color = "White"
                                        THEN to_ascii_uppercase(piece_type_char)
                                        ELSE to_ascii_lowercase(piece_type_char)
                      IN  flush \o <<piece_char>> \o fen_cols(board, row, col + 1, 0)

\* the outer loop of board_to_fen from loop index row on
RECURSIVE fen_rows(_, _)
fen_rows(board, row) ==
    IF row = 8 THEN <<>>
    ELSE fen_cols(board, row, 0, 0)
         \o (IF row # 7 THEN <<"/">> ELSE <<>>)
         \o fen_rows(board, row + 1)

board_to_fen(board) == fen_rows(board, 0)

\* one rank of a piece-placement string expanded to its squares
RECURSIVE fen_expand(_)
fen_expand(str) ==
    IF str = <<>> THEN <<>>
    ELSE LET c == Head(str)
             d == to_digit(c)
         IN  IF d.some THEN Repeat(None, d.val) \o fen_expand(Tail(str))
             ELSE IF \E k \in 1..6 : UpperLetters[k] = c
                  THEN <<Some(Piece("White", char_to_piece_type(c).val))>>
                       \o fen_expand(Tail(str))
             ELSE IF \E k \in 1..6 : LowerLetters[k] = c
                  THEN <<Some(Piece("Black",
                                    char_to_piece_type(to_ascii_uppercase(c)).val))>>
                       \o fen_expand(Tail(str))
             ELSE fen_expand(Tail(str))

\* Board::setup_fen of the rules engine: the board a piece-placement string
\* describes, ranks from row 7 down to row 0, files from column 0 to column 7
setup_fen(fen) ==
    LET ranks == Split(fen, "/")
        at(row, col) ==
            IF 8 - row <= Len(ranks) /\ col + 1 <= Len(fen_expand(ranks[8 - row]))
            THEN fen_expand(ranks[8 - row])[col + 1]
            ELSE None
    IN  [sq \in Squares |-> at(sq[1], sq[2])]

(***************************************************************************)
(* Wire codec: frames.                                                     *)
(***************************************************************************)
ChessMOVE == <<"C", "h", "e", "s", "s", "M", "O", "V", "E">>
ChessQUIT == <<"C", "h", "e", "s", "s", "Q", "U", "I", "T">>

\* 128 - str.len() is a usize subtraction: it panics on overflow in a debug
\* build and wraps in a release build, where "0".repeat then panics on the
\* capacity; either way the call unwinds
add_padding(str) ==
    IF Len(str) > 128 THEN Panic("attempt to subtract with overflow")
    ELSE Ok(str \o Repeat("0", 128 - Len(str)))

MoveMessage(from, to, promotion_piece, result, new_board) ==
    [from |-> from, to |-> to, promotion_piece |-> promotion_piece,
     result |-> result, new_board |-> new_board]

QuitMessage(message) == [message |-> message]

Move(move_msg) == [type |-> "Move", msg |-> move_msg]
Quit(quit_msg) == [type |-> "Quit", msg |-> quit_msg]

MoveMessage_to_string(self) ==
    LET mv == move_to_string(self.from, self.to, self.promotion_piece)
    IN  IF mv.kind = "Panic" THEN mv
        ELSE add_padding(ChessMOVE \o <<":">> \o mv.val \o <<":">>
                         \o game_result_to_string(self.result) \o <<":">>
                         \o board_to_fen(self.new_board) \o <<":">>)

MoveMessage_from_string(msg_str) ==
    IF Len(msg_str) # 128 THEN Err("Message must be 128 characters")
    ELSE LET parts == Split(msg_str, ":")
             mv == move_from_string(parts[2])
             result == game_result_from_string(parts[3])
         IN  IF Len(parts) # 5 THEN Err("Invalid message format")
             ELSE IF mv.kind = "Panic" THEN mv
             ELSE IF mv.kind # "Ok" THEN Err("Invalid move format")
             ELSE IF result.kind # "Ok" THEN Err("Invalid result format")
             ELSE Ok(MoveMessage(mv.val.from, mv.val.to, mv.val.promotion_piece,
                                 result.val, setup_fen(parts[4])))

QuitMessage_to_string(self) ==
    LET msg == IF self.message.some THEN self.message.val ELSE <<>>
    IN  add_padding(ChessQUIT \o <<":">> \o msg \o <<":">>)

QuitMessage_from_string(msg_str) ==
    IF Len(msg_str) # 128 THEN Err("Message must be 128 characters")
    ELSE LET parts == Split(msg_str, ":")
             msg == IF Len(parts) = 3 THEN Some(parts[2]) ELSE None
         IN  Ok(QuitMessage(msg))

Message_to_string(self) ==
    IF self.type = "Move" THEN MoveMessage_to_string(self.msg)
    ELSE QuitMessage_to_string(self.msg)

\* Message::from_string with the length test msg_str.len() < 128
Message_from_string_short_only(msg_str) ==
    IF Len(msg_str) < 128 THEN Err("Message must be 128 characters")
    ELSE LET identifier == Slice(msg_str, 0, 9)
             move_msg == MoveMessage_from_string(msg_str)
             quit_msg == QuitMessage_from_string(msg_str)
         IN  IF identifier.kind = "Panic" THEN identifier
             ELSE IF identifier.val = ChessMOVE
                  THEN IF move_msg.kind = "Ok" THEN Ok(Move(move_msg.val))
                       ELSE move_msg
             ELSE IF identifier.val = ChessQUIT
                  THEN IF quit_msg.kind = "Ok" THEN Ok(Quit(quit_msg.val))
                       ELSE quit_msg
             ELSE Err("Invalid message identifier")

\* Result::map: Ok(v) -> Ok(f(v)), anything else unchanged
Message_from_string(msg_str) ==
    IF Len(msg_str) # 128 THEN Err("Message must be 128 characters")
    ELSE LET identifier == Slice(msg_str, 0, 9)
             move_msg == MoveMessage_from_string(msg_str)
             quit_msg == QuitMessage_from_string(msg_str)
         IN  IF identifier.kind = "Panic" THEN identifier
             ELSE IF identifier.val = ChessMOVE
                  THEN IF move_msg.kind = "Ok" THEN Ok(Move(move_msg.val))
                       ELSE move_msg
             ELSE IF identifier.val = ChessQUIT
                  THEN IF quit_msg.kind = "Ok" THEN Ok(Quit(quit_msg.val))
                       ELSE quit_msg
             ELSE Err("Invalid message identifier")

(***************************************************************************)
(* Inputs of the codec: boards, messages, strings and received bytes.      *)
(***************************************************************************)
BackRank == <<"Rook", "Knight", "Bishop", "Queen", "King", "Bishop", "Knight", "Rook">>

\* Board::start_pos()
StartPos ==
    [sq \in Squares |->
        CASE sq[1] = 0 -> Some(Piece("White", BackRank[sq[2] + 1]))
          [] sq[1] = 1 -> Some(Piece("White", "Pawn"))
          [] sq[1] = 6 -> Some(Piece("Black", "Pawn"))
          [] sq[1] = 7 -> Some(Piece("Black", BackRank[sq[2] + 1]))
          [] OTHER -> None]

\* the board after e2e4
AfterE2E4 ==
    [StartPos EXCEPT ![<<1, 4>>] = None, ![<<3, 4>>] = Some(Piece("White", "Pawn"))]

EmptyBoard == [sq \in Squares |-> None]

\* every square occupied: the longest piece-placement string
FullBoard ==
    [sq \in Squares |->
        Some(Piece(IF (sq[1] + sq[2]) % 2 = 0 THEN "White" ELSE "Black",
                   BackRank[((sq[1] + sq[2]) % 8) + 1]))]

\* two kings and a pawn: empty runs at the start, middle and end of a rank
SparseBoard ==
    [sq \in Squares |->
        CASE sq = <<0, 4>> -> Some(Piece("White", "King"))
          [] sq = <<7, 0>> -> Some(Piece("Black", "King"))
          [] sq = <<4, 7>> -> Some(Piece("Black", "Pawn"))
          [] sq = <<4, 2>> -> Some(Piece("White", "Queen"))
          [] OTHER -> None]

\* every other square occupied: empty runs of one square
CheckerBoard ==
    [sq \in Squares |->
        IF (sq[1] + sq[2]) % 2 = 0
        THEN Some(Piece(IF sq[1] < 4 THEN "White" ELSE "Black",
                        BackRank[((sq[1] * 3 + sq[2]) % 8) + 1]))
        ELSE None]

\* one piece at an end of each rank, or two in its middle: empty runs of 7, 3, 2
EdgeBoard ==
    [sq \in Squares |->
        CASE sq[1] % 3 = 0 /\ sq[2] = 7 -> Some(Piece("Black", "Rook"))
          [] sq[1] % 3 = 1 /\ sq[2] = 0 -> Some(Piece("White", "Bishop"))
          [] sq[1] % 3 = 2 /\ sq[2] \in {3, 4} ->
                Some(Piece(IF sq[2] = 3 THEN "White" ELSE "Black", "Knight"))
          [] OTHER -> None]

Boards == {StartPos, AfterE2E4, EmptyBoard, FullBoard, SparseBoard, CheckerBoard, EdgeBoard}

Positions == {Position_new(r, c) : r \in 0..7, c \in 0..7}
Promotions == {None} \cup {Some(t) : t \in PieceType}
Results == {None} \cup {Some(g) : g \in GameResult}

\* every pair of squares with two fixed tails, and every tail with a few pairs
MoveInputs ==
    {Move(MoveMessage(f, t, x[1], x[2], x[3])) :
        f \in Positions, t \in Positions,
        x \in {<<Some("Queen"), Some(Checkmate("White")), SparseBoard>>}}
    \cup
    {Move(MoveMessage(x[1], x[2], p, r, b)) :
        x \in {<<Position_new(1, 4), Position_new(3, 4)>>,
               <<Position_new(6, 0), Position_new(7, 7)>>,
               <<Position_new(0, 0), Position_new(0, 0)>>},
        p \in Promotions, r \in Results, b \in Boards}

\* reason texts: every text of at most MaxReasonLen characters over
\* ReasonAlphabet, and texts around the longest that fits a frame
MaxReasonLen == 2
ReasonAlphabet == {"a", ":", "0", " "}
LongReasonLens == {100, 116, 117, 118, 119, 140}
ShortReasons == UNION {[1..n -> ReasonAlphabet] : n \in 0..MaxReasonLen}
LongReasons == {Repeat("a", n) : n \in LongReasonLens}
                 \cup {<<"b", ":">> \o Repeat("0", n) : n \in {100, 115, 116}}
QuitInputs ==
    {Quit(QuitMessage(None))}
    \cup {Quit(QuitMessage(Some(r))) : r \in ShortReasons \cup LongReasons}
    \cup {Quit(QuitMessage(Some(<<"o", "l", "xC3", "xA9">>)))}

\* a frame built by hand: text zero-padded to 128 bytes
Pad(text) == text \o Repeat("0", 128 - Len(text))
StartFen == board_to_fen(StartPos)
RawMoveFrame(move_str, result_str, fen) ==
    Pad(ChessMOVE \o <<":">> \o move_str \o <<":">> \o result_str \o <<":">>
        \o fen \o <<":">>)

\* ChessMOVE frames with every 5-character move token over these characters
FileChars == {"A", "H", "a", "I"}
RankChars == {"0", "1", "8", "9"}
PromoChars == {"0", "P", "N", "B", "R", "Q", "K", "p", "X", "9", ":"}
RawMoveTokens ==
    {<<f1, r1, f2, r2, pr>> :
        f1 \in FileChars, r1 \in RankChars, f2 \in FileChars, r2 \in RankChars,
        pr \in PromoChars}
    \cup {<<"A", "1", "B", "2">>, <<"A", "1", "B", "2", "Q", "0">>, <<>>,
          <<"A", "x", "B", "2", "0">>, <<"1", "A", "B", "2", "0">>,
          <<"A", "1", "B", " ", "0">>, <<"@", "1", "B", "2", "0">>,
          <<"A", "1", "B", "xC3", "xA9">>, <<"xC3", "xA9", "A", "1", "0">>,
          <<"A", "1", "xC3", "xA9", "0">>, <<"A", "xC3", "xA9", "1", "0">>}
RawResultTokens ==
    {<<"1", "-", "0">>, <<"0", "-", "1">>, <<"1", "-", "1">>, <<"0", "-", "0">>,
     <<"2", "-", "0">>, <<"1", "-", "0", " ">>, <<"1", "0">>, <<>>}
RawMoveFrames ==
    {RawMoveFrame(m, <<"0", "-", "0">>, StartFen) : m \in RawMoveTokens}
    \cup {RawMoveFrame(<<"E", "2", "E", "4", "0">>, r, StartFen) : r \in RawResultTokens}
    \cup {RawMoveFrame(<<"E", "7", "E", "8", "Q">>, r, <<>>) : r \in RawResultTokens}

\* frames that differ in their first 9 bytes
RawIdentifiers ==
    {ChessMOVE, ChessQUIT,
     <<"C", "h", "e", "s", "s", "M", "O", "V", "X">>,
     <<"c", "h", "e", "s", "s", "M", "O", "V", "E">>,
     <<"C", "h", "e", "s", "s", "Q", "u", "i", "t">>,
     <<"C", "h", "e", "s", "s", "M", "O", "V", ":">>,
     <<"0", "0", "0", "0", "0", "0", "0", "0", "0">>,
     <<" ", "C", "h", "e", "s", "s", "M", "O", "V">>}
RawIdentFrames ==
    {Pad(id \o <<":">> \o tail) :
        id \in RawIdentifiers,
        tail \in {<<":">>, <<"b", "y", "e", ":">>,
                  <<"E", "2", "E", "4", "0", ":", "0", "-", "0", ":">> \o StartFen \o <<":">>}}

BaseFrames ==
    {Pad(ChessQUIT \o <<":", ":">>),
     RawMoveFrame(<<"E", "2", "E", "4", "0">>, <<"0", "-", "0">>, StartFen),
     Pad(<<"H", "e", "l", "l", "o">>)}

\* strings of every length from 0 to 128 + MaxExtra except 128
MaxExtra == 3
WrongLengthStrings ==
    {SubSeq(b \o Repeat("0", MaxExtra), 1, n) :
        b \in BaseFrames, n \in (0..(128 + MaxExtra)) \ {128}}
    \cup {SubSeq(<<"C", "h", "e", "s", "s", "M", "O", "V", "xC3", "xA9">>
                 \o Repeat("0", 118 + MaxExtra), 1, n) :
            n \in {10, 11, 127, 129, 128 + MaxExtra}}

\* 128-byte strings holding the 2-byte character U+00E9 at byte offset k
UnicodeFrames ==
    {SubSeq(b, 1, k) \o <<"xC3", "xA9">> \o SubSeq(b, k + 3, 128) :
        b \in BaseFrames, k \in 0..126}

StringInputs == RawMoveFrames \cup RawIdentFrames \cup WrongLengthStrings \cup UnicodeFrames

\* 128 received bytes: a frame with one of its first bytes overwritten
MaxByteOffset == 16
ByteInputs ==
    {[b EXCEPT ![k] = x] :
        b \in BaseFrames, k \in 1..MaxByteOffset, x \in {"xFF", "xC3", "xA9", "xEF"}}
    \cup {SubSeq(b, 1, k) \o <<"xC3", "xA9">> \o SubSeq(b, k + 3, 128) :
            b \in BaseFrames, k \in 0..MaxByteOffset}

(***************************************************************************)
(* State.                                                                  *)
(***************************************************************************)
VARIABLES
    \* codec harness
    cpc,       \* "encode", "lossy", "decode", "done" or "idle"
    cin,       \* the input: a message, a string or 128 received bytes
    cenc,      \* what to_string returned
    cframe,    \* the string handed to from_string
    cdec,      \* what from_string returned
    \* one direction of the TcpStream between the two TcpConnections
    net,       \* bytes written by the sender that have not reached the reader's socket
    sockbuf,   \* bytes buffered on the reader's socket, not yet consumed by a read
    wlog,      \* the write calls so far: message and result
    received,  \* the messages returned by successful reads, in order
    lastRead   \* the last read call: bytes buffered when called, and result

codecVars == <<cpc, cin, cenc, cframe, cdec>>
connVars == <<net, sockbuf, wlog, received, lastRead>>
vars == <<cpc, cin, cenc, cframe, cdec, net, sockbuf, wlog, received, lastRead>>

NoResult == [kind |-> "NoResult"]

CodecIdle ==
    /\ cpc = "idle"
    /\ cin = [kind |-> "none"]
    /\ cenc = NoResult
    /\ cframe = <<>>
    /\ cdec = NoResult

ConnInit ==
    /\ net = <<>>
    /\ sockbuf = <<>>
    /\ wlog = <<>>
    /\ received = <<>>
    /\ lastRead = [avail |-> 0, result |-> NoResult]

(***************************************************************************)
(* The codec applied to one input.                                         *)
(***************************************************************************)
CodecInit ==
    /\ \/ /\ cpc = "encode"
          /\ cin \in {[kind |-> "message", val |-> m] : m \in MoveInputs \cup QuitInputs}
       \/ /\ cpc = "decode"
          /\ cin \in {[kind |-> "string", val |-> x] : x \in StringInputs}
       \/ /\ cpc = "lossy"
          /\ cin \in {[kind |-> "bytes", val |-> x] : x \in ByteInputs}
    /\ cenc = NoResult
    /\ cframe = IF cin.kind = "string" THEN cin.val ELSE <<>>
    /\ cdec = NoResult
    /\ ConnInit

\* Message::to_string on the input message
Encode ==
    /\ cpc = "encode"
    /\ cenc' = Message_to_string(cin.val)
    /\ cframe' = IF cenc'.kind = "Ok" THEN cenc'.val ELSE <<>>
    /\ cpc' = IF cenc'.kind = "Ok" THEN "decode" ELSE "done"
    /\ UNCHANGED <<cin, cdec>>
    /\ UNCHANGED connVars

\* String::from_utf8_lossy on the received bytes, as read does
Lossy ==
    /\ cpc = "lossy"
    /\ cframe' = from_utf8_lossy(cin.val)
    /\ cpc' = "decode"
    /\ UNCHANGED <<cin, cenc, cdec>>
    /\ UNCHANGED connVars

\* Message::from_string on the string
Decode ==
    /\ cpc = "decode"
    /\ cdec' = Message_from_string(cframe)
    /\ cpc' = "done"
    /\ UNCHANGED <<cin, cenc, cframe>>
    /\ UNCHANGED connVars

CodecNext == Encode \/ Lossy \/ Decode
SpecCodec == CodecInit /\ [][CodecNext]_vars

(***************************************************************************)
(* TcpConnection: one direction of the stream, from the endpoint that      *)
(* calls write to the endpoint that calls read.  Both sockets are          *)
(* non-blocking.  The stream delivers bytes in order, in pieces of any     *)
(* multiples of Segment bytes (the tail of what is in flight may be        *)
(* shorter), and holds at most SockCap bytes that no read has consumed.    *)
(***************************************************************************)
MaxWrites == 2
SockCap == 200
Segment == 32

\* TcpError
WouldBlock == [tag |-> "WouldBlock"]
InvalidMessage(msg) == [tag |-> "InvalidMessage", msg |-> msg]

\* the messages the endpoints exchange here: ones that decode to themselves,
\* so that what a read returns can be compared with what was written
ConnMessages ==
    {Quit(QuitMessage(Some(<<"b", "y", "e">>))),
     Move(MoveMessage(Position_new(1, 4), Position_new(3, 4), None, None, AfterE2E4)),
     Move(MoveMessage(Position_new(6, 0), Position_new(7, 0), Some("Queen"),
                      Some(Checkmate("White")), SparseBoard))}

Min(a, b) == IF a < b THEN a ELSE b

\* TcpConnection::write.  write_all hands the frame to the socket piece by
\* piece: the bytes the socket has room for are on the stream when the next
\* piece meets a full socket and the call returns WouldBlock.
write(message) ==
    /\ Len(wlog) < MaxWrites
    /\ \A i \in 1..Len(wlog) : wlog[i].result.kind # "Panic"
    /\ LET frame == Message_to_string(message)
           room == SockCap - (Len(net) + Len(sockbuf))
           sent == Min(room, Len(frame.val))
           result == IF frame.kind = "Panic" THEN frame
                     ELSE IF sent = Len(frame.val) THEN Ok(<<>>)
                     ELSE Err(WouldBlock)
       IN  /\ net' = IF frame.kind = "Panic" THEN net
                     ELSE net \o SubSeq(frame.val, 1, sent)
           /\ wlog' = Append(wlog, [message |-> message, result |-> result])
    /\ UNCHANGED <<sockbuf, received, lastRead>>
    /\ UNCHANGED codecVars

\* The stream moves the next n bytes to the reader's socket.
arrive(n) ==
    /\ n \in 1..Len(net)
    /\ n % Segment = 0 \/ n = Len(net)
    /\ sockbuf' = sockbuf \o SubSeq(net, 1, n)
    /\ net' = SubSeq(net, n + 1, Len(net))
    /\ UNCHANGED <<wlog, received, lastRead>>
    /\ UNCHANGED codecVars

\* TcpConnection::read with one read call in place of read_exact: whatever
\* is buffered lands in the zeroed buffer and is decoded
read_once ==
    /\ lastRead.result.kind # "Panic"
    /\ LET avail == Len(sockbuf)
           taken == Min(avail, 128)
           buffer == SubSeq(sockbuf, 1, taken) \o Repeat("x00", 128 - taken)
           msg_str == from_utf8_lossy(buffer)
           decoded == Message_from_string(msg_str)
           result == IF taken = 0 THEN Err(WouldBlock)
                     ELSE IF decoded.kind = "Err" THEN Err(InvalidMessage(decoded.err))
                     ELSE decoded
       IN  /\ sockbuf' = SubSeq(sockbuf, taken + 1, avail)
           /\ lastRead' = [avail |-> avail, result |-> result]
           /\ received' = IF result.kind = "Ok" THEN Append(received, result.val)
                          ELSE received
    /\ UNCHANGED <<net, wlog>>
    /\ UNCHANGED codecVars

\* TcpConnection::read.  read_exact takes bytes off the socket until the
\* 128-byte buffer is full; when the socket runs dry first it returns
\* WouldBlock and the bytes already taken go with the local buffer.
read ==
    /\ lastRead.result.kind # "Panic"
    /\ LET avail == Len(sockbuf)
           taken == Min(avail, 128)
           buffer == SubSeq(sockbuf, 1, taken)
           msg_str == from_utf8_lossy(buffer)
           decoded == Message_from_string(msg_str)
           result == IF taken < 128 THEN Err(WouldBlock)
                     ELSE IF decoded.kind = "Err" THEN Err(InvalidMessage(decoded.err))
                     ELSE decoded
       IN  /\ sockbuf' = SubSeq(sockbuf, taken + 1, avail)
           /\ lastRead' = [avail |-> avail, result |-> result]
           /\ received' = IF result.kind = "Ok" THEN Append(received, result.val)
                          ELSE received
    /\ UNCHANGED <<net, wlog>>
    /\ UNCHANGED codecVars

Init == CodecIdle /\ ConnInit

Next ==
    \/ \E message \in ConnMessages : write(message)
    \/ \E n \in 1..SockCap : arrive(n)
    \/ read

Spec == Init /\ [][Next]_vars

(***************************************************************************)
(* Properties of the connection (checked under Spec).                      *)
(***************************************************************************)
AllWritesOk == \A i \in 1..Len(wlog) : wlog[i].result = Ok(<<>>)
Written == [i \in 1..Len(wlog) |-> wlog[i].message]
IsPrefix(p, q) == Len(p) <= Len(q) /\ SubSeq(q, 1, Len(p)) = p
ReadCalled == lastRead.result.kind # "NoResult"

\* C1: when every write so far completed successfully, the messages returned
\* by the successful reads are, in order, a prefix of the messages written:
\* none lost, duplicated, reordered or assembled from two frames.
C1_InOrderDelivery == AllWritesOk => IsPrefix(received, Written)

C3_PollingRecovers ==
    (AllWritesOk /\ net = <<>> /\ sockbuf = <<>>) => Len(received) = Len(wlog)

(***************************************************************************)
(* Properties of the codec (checked under SpecCodec).                      *)
(***************************************************************************)
Decoded == cpc = "done" /\ cdec.kind # "NoResult"
EncodedInput == cin.kind = "message" /\ cpc # "encode"
AsciiFrame == \A i \in 1..Len(cframe) : IsAscii(cframe[i])
\* a 128-byte ASCII frame that starts "ChessMOVE:" has been decoded
DecodedMoveFrame ==
    /\ Decoded
    /\ Len(cframe) = 128
    /\ AsciiFrame
    /\ SubSeq(cframe, 1, 10) = ChessMOVE \o <<":">>
OnBoard(pos) == pos.row \in 0..7 /\ pos.col \in 0..7
GoodSquareToken(file, rank) ==
    /\ file \in {"A", "B", "C", "D", "E", "F", "G", "H"}
    /\ rank \in {"1", "2", "3", "4", "5", "6", "7", "8"}

\* C4: a MoveMessage with on-board squares, any promotion and any result
\* encodes to a frame that decodes to the same from, to, promotion and result
\* and a board with the same piece on every square; the result is
\* CheckmateWhite exactly when the frame's result token is 1-0.
C4_MoveRoundTrip ==
    /\ (EncodedInput /\ cin.val.type = "Move") =>
          /\ cenc.kind = "Ok"
          /\ (cin.val.msg.result = Some(Checkmate("White")))
                <=> (SubSeq(cframe, 17, 19) = <<"1", "-", "0">>)
    /\ (Decoded /\ cin.kind = "message" /\ cin.val.type = "Move") =>
          /\ cdec.kind = "Ok"
          /\ cdec.val.type = "Move"
          /\ cdec.val.msg.from = cin.val.msg.from
          /\ cdec.val.msg.to = cin.val.msg.to
          /\ cdec.val.msg.promotion_piece = cin.val.msg.promotion_piece
          /\ cdec.val.msg.result = cin.val.msg.result
          /\ \A sq \in Squares :
                cdec.val.msg.new_board[sq] = cin.val.msg.new_board[sq]
    /\ (DecodedMoveFrame /\ cdec.kind = "Ok") =>
          (cdec.val.msg.result = Some(Checkmate("White")))
             <=> (Split(cframe, ":")[3] = <<"1", "-", "0">>)

\* C4 witness: a checkmating promotion on the starting board went through
\* encode and decode.
C4_Witness ==
    /\ Decoded
    /\ cin.kind = "message"
    /\ cin.val.type = "Move"
    /\ cin.val.msg.result = Some(Checkmate("White"))
    /\ cin.val.msg.promotion_piece = Some("Knight")
    /\ cin.val.msg.new_board = StartPos
    /\ cdec = Ok(cin.val)

\* C5: a QuitMessage with no reason encodes to a frame that decodes to a
\* QuitMessage with no reason.
C5_QuitNoReasonRoundTrip ==
    (Decoded /\ cin.kind = "message" /\ cin.val = Quit(QuitMessage(None)))
        => cdec = Ok(Quit(QuitMessage(None)))

\* C6: encoding any MoveMessage or QuitMessage returns a frame of exactly 128
\* bytes and never aborts.
C6_FrameLengthInvariant ==
    EncodedInput => (cenc.kind = "Ok" /\ Len(cenc.val) = 128)

\* C7: a ChessMOVE frame whose origin or destination token is not a file A..H
\* followed by a rank 1..8 fails to decode, and every decoded MoveMessage has
\* its squares on the board.
C7_SquareTokenRejection ==
    DecodedMoveFrame =>
        /\ (~GoodSquareToken(cframe[11], cframe[12])
              \/ ~GoodSquareToken(cframe[13], cframe[14])) => cdec.kind = "Err"
        /\ cdec.kind = "Ok" =>
              (OnBoard(cdec.val.msg.from) /\ OnBoard(cdec.val.msg.to))

\* C8: a ChessMOVE frame whose fifth move character is neither 0 nor one of
\* P N B R Q K fails to decode.
C8_PromotionTokenRejection ==
    (DecodedMoveFrame /\ cframe[15] \notin {"0", "P", "N", "B", "R", "Q", "K"})
        => cdec.kind = "Err"

\* C9: decoding any string ends with a message or a decode failure, never a
\* panic.
C9_DecoderNeverPanics == Decoded => cdec.kind \in {"Ok", "Err"}

\* C10: decoding a string whose length is not 128 bytes fails with the length
\* error, whatever the string holds.
C10_StrictLengthRejection ==
    (Decoded /\ Len(cframe) # 128) => cdec = Err("Message must be 128 characters")

\* C10 witness: strings one byte short and one byte long of a frame, with a
\* known identifier, were rejected.
C10_Witness ==
    /\ Decoded
    /\ Len(cframe) \in {127, 129}
    /\ SubSeq(cframe, 1, 9) = ChessMOVE
    /\ cdec.kind = "Err"

\* C11: decoding a 128-byte frame whose first 9 bytes are neither ChessMOVE
\* nor ChessQUIT fails with the unrecognized-identifier error; a frame that
\* starts with ChessMOVE decodes, if at all, to a Move and one that starts
\* with ChessQUIT to a Quit, and neither gets the identifier error.
C11_IdentifierDispatch ==
    (Decoded /\ Len(cframe) = 128) =>
        /\ SubSeq(cframe, 1, 9) \notin {ChessMOVE, ChessQUIT}
              => cdec = Err("Invalid message identifier")
        /\ SubSeq(cframe, 1, 9) = ChessMOVE =>
              /\ cdec # Err("Invalid message identifier")
              /\ cdec.kind = "Ok" => cdec.val.type = "Move"
        /\ SubSeq(cframe, 1, 9) = ChessQUIT =>
              /\ cdec # Err("Invalid message identifier")
              /\ cdec.kind = "Ok" => cdec.val.type = "Quit"

\* C12: a QuitMessage whose reason is present and whose encoding fits in 128
\* bytes encodes to a frame that decodes to a QuitMessage with exactly that
\* reason present, whatever characters the reason holds (':' and '0'
\* included).
C12_QuitReasonRoundTrip ==
    (/\ Decoded
     /\ cin.kind = "message"
     /\ cin.val.type = "Quit"
     /\ cin.val.msg.message # None
     /\ cenc.kind = "Ok")
        => cdec = Ok(cin.val)

(***************************************************************************)
(* Further properties of the connection (checked under Spec).              *)
(***************************************************************************)
\* a write call has just returned
WriteReturned == Len(wlog') = Len(wlog) + 1
LastWrite == wlog[Len(wlog)]

\* C13: a write call that returns WouldBlock has put no byte of its frame on
\* the stream, and one that returns Ok has put the whole frame, so that the
\* stream holds whole frames only and the call can be repeated.
C13_WriteRetrySafe ==
    [][WriteReturned =>
          /\ LastWrite'.result = Err(WouldBlock) => net' = net
          /\ LastWrite'.result = Ok(<<>>) =>
                net' = net \o Message_to_string(LastWrite'.message).val]_vars

\* a read call has just returned, having taken Consumed bytes off the socket
ReadReturned == net' = net /\ wlog' = wlog
Consumed == Len(sockbuf) - Len(sockbuf')
ReturnedInvalidMessage ==
    /\ lastRead'.result.kind = "Err"
    /\ lastRead'.result.err.tag = "InvalidMessage"

\* C14: every read call consumes exactly one 128-byte frame or nothing, and a
\* read that returns InvalidMessage has consumed exactly the 128 bytes of the
\* offending frame.
C14_MalformedFrameConsumedOnce ==
    [][ReadReturned =>
          /\ Consumed \in {0, 128}
          /\ ReturnedInvalidMessage => Consumed = 128]_vars

(***************************************************************************)
(* The piece-placement string (checked under SpecCodec).                   *)
(***************************************************************************)
\* a MoveMessage has been encoded to a frame
EncodedMove == EncodedInput /\ cin.val.type = "Move" /\ cenc.kind = "Ok"
\* the board field of the frame, and its ranks
FenField == Split(cenc.val, ":")[4]
FenRanks == Split(FenField, "/")
RunDigits == {"1", "2", "3", "4", "5", "6", "7", "8"}
\* the number of squares a character of a rank string stands for
Width(c) == IF c \in RunDigits THEN to_digit(c).val ELSE 1
\* the column of the first square that character i of the rank string stands for
RECURSIVE StartCol(_, _)
StartCol(rank, i) == IF i = 1 THEN 0 ELSE StartCol(rank, i - 1) + Width(rank[i - 1])
\* the letter of a piece: uppercase for White, lowercase for Black
PieceLetter(piece) ==
    LET k == CHOOSE j \in 1..6 : char_to_piece_type(UpperLetters[j]) = Ok(piece.piece_type)
    IN  IF piece.color = "White" THEN UpperLetters[k] ELSE LowerLetters[k]
\* the rank string describes row `row` of the board square by square, each
\* maximal run of empty squares as one digit
RankMatches(rank, board, row) ==
    /\ Len(rank) >= 1
    /\ StartCol(rank, Len(rank)) + Width(rank[Len(rank)]) = 8
    /\ \A i \in 1..Len(rank) :
          LET c == rank[i]
              col == StartCol(rank, i)
          IN  IF c \in RunDigits
              THEN /\ \A k \in col..(col + Width(c) - 1) : board[<<row, k>>] = None
                   /\ i < Len(rank) => rank[i + 1] \notin RunDigits
              ELSE /\ board[<<row, col>>] # None
                   /\ c = PieceLetter(board[<<row, col>>].val)

\* C15: the board field that board_to_fen emits is 8 rank strings joined by 7
\* '/' characters, from row 7 down to row 0 and within a rank from column 0
\* to column 7; each maximal run of empty squares is one digit 1..8 and each
\* occupied square its piece letter, uppercase for White and lowercase for
\* Black, so that expanding the digits gives the board's 64 squares.
C15_FenReferenceEncoding ==
    EncodedMove =>
        /\ FenField = board_to_fen(cin.val.msg.new_board)
        /\ Len(FenRanks) = 8
        /\ Len(SelectSeq(FenField, LAMBDA c : c = "/")) = 7
        /\ \A i \in 1..8 : RankMatches(FenRanks[i], cin.val.msg.new_board, 8 - i)

\* C15 witness: a board with empty runs at the start, in the middle and at
\* the end of a rank, and of a whole rank, was encoded.
C15_Witness ==
    /\ EncodedMove
    /\ cin.val.msg.new_board = SparseBoard
    /\ FenField = <<"k", "7", "/", "8", "/", "8", "/", "2", "Q", "4", "p", "/",
                    "8", "/", "8", "/", "8", "/", "4", "K", "3">>

====
